---------------------------- MODULE Spec2Model ----------------------------
(***************************************************************************)
(* A model of the gaze-event classifier of PyGaze's EyeLink wrapper        *)
(* (src/pygaze/_eyetracker/libeyelink.py): the recording flag, the         *)
(* detection mode, the calibrated pixel thresholds, the sample poll, the   *)
(* millisecond clock and the six blocking wait operations, in heuristic    *)
(* ('pygaze') and in delegated ('native') mode.                            *)
(*                                                                         *)
(* Numbers.  Python computes with floats; the model computes exactly.      *)
(* Times are milliseconds, read from a clock that advances by whole        *)
(* multiples of TickMs.  Gaze positions are pixels; the valid positions    *)
(* the tracker delivers are the lattice points Pos(k) = (3k-1, 4k-1),      *)
(* which lie on one line with the invalid sentinel (-1,-1), so that every  *)
(* Euclidean distance the code takes (a square root) is a whole number,    *)
(* also a distance that involves the sentinel.  Velocities, accelerations  *)
(* and the two motion thresholds are rationals [n, d] in lowest terms.     *)
(* One loop iteration of the code is one step of the model: the program is *)
(* single-threaded and meets its environment only in sample() and in       *)
(* clock.get_time().                                                       *)
(***************************************************************************)
EXTENDS Integers, Sequences, FiniteSets, TLC

(***************************************************************************)
(* Bounds of the model.                                                    *)
(***************************************************************************)
\* number of distinct valid gaze positions the tracker can deliver
MaxPos == 3
\* the clock is read up to MaxTicks * TickMs milliseconds
MaxTicks == 5
\* the clock's quantum, in milliseconds
TickMs == 50
\* the largest number of quanta between two consecutive clock readings
MaxJump == 2
\* the timeout a caller passes, in milliseconds
TimeoutMs == 100
\* the clock is read up to LiveTicks * TickMs milliseconds in the regimes
\* with a strictly advancing clock
LiveTicks == 10

(***************************************************************************)
(* Program constants.                                                      *)
(***************************************************************************)
weightdist == 10
fixtimetresh == 100
blink_threshold == 150
\* timeout=None
NoTimeout == -1

(***************************************************************************)
(* Exact arithmetic.                                                       *)
(***************************************************************************)
Abs(x) == IF x < 0 THEN -x ELSE x

RECURSIVE Gcd(_, _)
Gcd(a, b) == IF b = 0 THEN a ELSE Gcd(b, a % b)

\* the rational n/d (d > 0) in lowest terms
Rat(n, d) ==
    LET g == Gcd(Abs(n), d)
    IN  IF n = 0 THEN [n |-> 0, d |-> 1] ELSE [n |-> n \div g, d |-> d \div g]

RatZero == [n |-> 0, d |-> 1]
RatGt(a, b) == a.n * b.d > b.n * a.d
RatLt(a, b) == a.n * b.d < b.n * a.d
RatNeg(a) == [n |-> -(a.n), d |-> a.d]
RatSub(a, b) == Rat(a.n * b.d - b.n * a.d, a.d * b.d)
\* a / k for a whole k > 0
RatDiv(a, k) == Rat(a.n, a.d * k)

\* the square root of a perfect square
Isqrt(n) == CHOOSE r \in 0..n : r * r = n

(***************************************************************************)
(* Samples.                                                                *)
(***************************************************************************)
Invalid == <<-1, -1>>
Pos(k) == <<3 * k - 1, 4 * k - 1>>
Points == {Pos(k) : k \in 1..MaxPos}
Gazes == Points \cup {Invalid}

\* What getNewestSample() delivers: nothing new (None), a sample without data
\* for the eye in use (gaze = Invalid), or a sample with a gaze position.
NoNewSample == [new |-> FALSE, gaze |-> Invalid]
RawSamples == {NoNewSample} \cup {[new |-> TRUE, gaze |-> g] : g \in Gazes}

\* Variant: every sample counts as valid.
AlwaysValid(gazepos) == TRUE

is_valid_sample(gazepos) == gazepos # Invalid

\* ((x1-x0)**2 + (y1-y0)**2) ** 0.5
Distance(p, q) ==
    Isqrt((p[1] - q[1]) * (p[1] - q[1]) + (p[2] - q[2]) * (p[2] - q[2]))

\* (x1-x0)**2 + (y1-y0)**2
SquaredDistance(p, q) ==
    (p[1] - q[1]) * (p[1] - q[1]) + (p[2] - q[2]) * (p[2] - q[2])

(***************************************************************************)
(* Thresholds.  calibrate() sets pxdsttresh (the RMS noise per axis),      *)
(* pxfixtresh, pxspdtresh and pxacctresh together; before it has done so   *)
(* the attributes do not exist.                                            *)
(***************************************************************************)
Undefined ==
    [def |-> FALSE, pxdsttresh |-> <<1, 1>>, pxfixtresh |-> 0,
     pxspdtresh |-> RatZero, pxacctresh |-> RatZero]

\* The threshold sets a completed noise calibration can store: a noisy
\* tracker (a step of one lattice unit is below the noise gate) and a quiet
\* one (every step passes it), a positive and a negative acceleration
\* threshold (deg2pix takes the tangent of the angle, which is negative for
\* the default 9500 degrees).
Noisy ==
    [def |-> TRUE, pxdsttresh |-> <<2, 2>>, pxfixtresh |-> 6,
     pxspdtresh |-> [n |-> 2, d |-> 25], pxacctresh |-> [n |-> -1, d |-> 500]]
Quiet ==
    [def |-> TRUE, pxdsttresh |-> <<1, 1>>, pxfixtresh |-> 6,
     pxspdtresh |-> [n |-> 1, d |-> 25], pxacctresh |-> [n |-> 1, d |-> 1000]]
Calibrations == {Noisy, Quiet}

(***************************************************************************)
(* State.                                                                  *)
(***************************************************************************)
VARIABLES
    recording,      \* self.recording
    eventdetection, \* self.eventdetection: "pygaze" or "native"
    thr,            \* self.pxdsttresh, pxfixtresh, pxspdtresh, pxacctresh
    prevsample,     \* self.prevsample
    now,            \* the last reading of clock.get_time()
    pc,             \* where the operation in progress stands
    op,             \* the wait operation that was called
    via,            \* TRUE when it was called as wait_for_event(code, timeout)
    timeout,        \* the timeout argument (NoTimeout: None)
    loc,            \* the local variables of the wait operation in progress
    ret,            \* what the last operation returned
    err,            \* the exception the last operation raised
    hist,           \* history of the samples polled in the call (not program state)
    stream          \* the sample source's regime

vars == <<recording, eventdetection, thr, prevsample, now, pc, op, via,
          timeout, loc, ret, err, hist, stream>>

WaitOps == {"saccade_start", "saccade_end", "fixation_start", "fixation_end",
            "blink_start", "blink_end"}

\* The locals of the wait operations, and those of the operations around
\* recording: the retry counter i of start_recording, the number n of
\* samples collected by fix_triggered_drift_correction (len(lx)) and the
\* overwrite argument of manual_drift_correction.
NoLocals ==
    [newpos |-> Invalid, prevpos |-> Invalid, t0 |-> 0, t1 |-> 0,
     v0 |-> RatZero, spos |-> Invalid, stime |-> 0,
     i |-> 0, n |-> 0, overwrite |-> FALSE]

NoRet == [shape |-> "-", t |-> 0, spos |-> Invalid, epos |-> Invalid]

\* History of one call: the last valid sample polled, whether every sample
\* polled so far was one and the same valid position, the number (up to 2)
\* of steps between two consecutive distinct valid samples, whether such a
\* step exceeded the noise gate, the clock reading taken when the fixation
\* anchor was last set, whether a sample was polled, and what the start
\* detection (of the saccade or of the fixation) reported, and the code of
\* the tracker event that wait_for_event took, and whether sample() has
\* answered the call's first poll with a valid gaze stored before the call,
\* and the raw sample the tracker delivered to the last poll.  For the
\* operations around recording: the number of calls of the tracker's
\* startRecording made by the start_recording in progress, the mode the call
\* has last put the tracker into ("setup" by doTrackerSetup, "drift" by
\* doDriftCorrect or prepare_drift_correction), and what doDriftCorrect
\* answered ("ok" for 0, "failed" otherwise).
NoHist ==
    [lastValid |-> Invalid, flat |-> TRUE, steps |-> 0, overGate |-> FALSE,
     anchorAt |-> 0, polled |-> 0, ssT |-> 0, ssPos |-> Invalid, event |-> 0,
     carried |-> FALSE, raw |-> NoNewSample,
     attempts |-> 0, entered |-> "-", dc |-> "-"]

Free == [mode |-> "free", k |-> 0]

AtRest == pc = "idle"

(***************************************************************************)
(* The clock.  A reading is the last reading plus a whole number of        *)
(* quanta; two consecutive readings may be equal unless the regime makes   *)
(* the clock strictly advance.                                             *)
(***************************************************************************)
MinJump == IF stream.mode = "free" THEN 0 ELSE 1
Horizon == IF stream.mode = "free" THEN MaxTicks * TickMs ELSE LiveTicks * TickMs
Readings(last) ==
    {last + j * TickMs : j \in MinJump..MaxJump} \cap (0..Horizon)

(***************************************************************************)
(* After construction (libeyelink.__init__).                               *)
(***************************************************************************)
InitObject ==
    /\ recording = FALSE
    /\ eventdetection \in {"pygaze", "native"}
    /\ thr = Undefined
    /\ prevsample = Invalid
    /\ now = 0
    /\ pc = "idle"
    /\ op = "-"
    /\ via = FALSE
    /\ timeout = NoTimeout
    /\ loc = NoLocals
    /\ ret = NoRet
    /\ err = "-"
    /\ hist = NoHist

Init == InitObject /\ stream = Free

(***************************************************************************)
(* Ends of an operation.                                                   *)
(***************************************************************************)
Raise(e) ==
    /\ pc' = "raised"
    /\ err' = e
    /\ UNCHANGED <<recording, eventdetection, thr, op, via, timeout, ret>>

Return(r) ==
    /\ pc' = "returned"
    /\ ret' = r
    /\ UNCHANGED <<recording, eventdetection, thr, op, via, timeout, err>>

Goto(l) ==
    /\ pc' = l
    /\ UNCHANGED <<recording, eventdetection, thr, op, via, timeout, ret, err>>

\* Between operations: the results and locals of the last one are dropped.
Rest ==
    /\ pc' = "idle"
    /\ op' = "-"
    /\ via' = FALSE
    /\ timeout' = NoTimeout
    /\ loc' = NoLocals
    /\ ret' = NoRet
    /\ err' = "-"
    /\ hist' = NoHist

(***************************************************************************)
(* sample(): raises while not recording; otherwise the newest sample's     *)
(* gaze, (-1,-1) when it has no data for the eye in use, and the previous  *)
(* result when the tracker has no new sample.                              *)
(***************************************************************************)
\* Variant: sample() without the recording check.
sample_never_raises == FALSE

sample_raises == ~recording

\* Variant: without a new sample, the last valid gaze polled in the call.
sample_last_valid(raw) == IF raw.new THEN raw.gaze ELSE hist.lastValid

sample(raw) == IF raw.new THEN raw.gaze ELSE prevsample

\* Whether the step from valid sample p to valid sample q exceeds the noise
\* gate, (dx/rms_x)^2 + (dy/rms_y)^2 > weightdist, for non-zero rms.
StepOverNoise(p, q) ==
    LET rx == thr.pxdsttresh[1]
        ry == thr.pxdsttresh[2]
        dx == q[1] - p[1]
        dy == q[2] - p[2]
    IN  dx * dx * ry * ry + dy * dy * rx * rx > weightdist * rx * rx * ry * ry

\* The raw samples the tracker can deliver next under the stream's regime.
Deliverable ==
    CASE stream.mode = "free" -> RawSamples
      [] stream.mode = "fixate" ->
            IF stream.k = 0
            THEN RawSamples
            ELSE {[new |-> TRUE, gaze |-> g] : g \in
                    {p \in Points : SquaredDistance(p, Pos(stream.k)) <=
                                    thr.pxfixtresh * thr.pxfixtresh}}
      [] OTHER ->
            IF stream.k = 0
            THEN {[new |-> TRUE, gaze |-> Pos(1)]}
            ELSE IF stream.k = MaxPos
            THEN {[new |-> TRUE, gaze |-> Pos(MaxPos)]}
            ELSE {[new |-> TRUE, gaze |-> Pos(j)] : j \in
                    {i \in (stream.k + 1)..MaxPos :
                        StepOverNoise(Pos(stream.k), Pos(i))}}

\* The regime after delivering gaze g.
Delivered(g) ==
    CASE stream.mode = "free" -> stream
      [] stream.mode = "fixate" ->
            IF stream.k = 0 /\ is_valid_sample(g)
            THEN [stream EXCEPT !.k = CHOOSE j \in 1..MaxPos : Pos(j) = g]
            ELSE stream
      [] OTHER -> [stream EXCEPT !.k = CHOOSE j \in 1..MaxPos : Pos(j) = g]

\* The history after sample() has answered the tracker's raw sample.
Polled(raw) ==
    LET g == sample(raw)
    IN
    [hist EXCEPT
        !.carried = hist.carried
                    \/ (hist.polled = 0 /\ ~raw.new /\ prevsample # Invalid),
        !.flat = hist.flat /\ is_valid_sample(g)
                 /\ (hist.polled = 0 \/ g = hist.lastValid),
        !.polled = 1,
        !.raw = raw,
        !.steps = IF /\ is_valid_sample(g)
                     /\ is_valid_sample(hist.lastValid)
                     /\ g # hist.lastValid
                     /\ hist.steps < 2
                  THEN hist.steps + 1 ELSE hist.steps,
        !.lastValid = IF is_valid_sample(g) THEN g ELSE hist.lastValid]

\* The history after sample() has answered in a saccade operation.
PolledSaccade(raw) ==
    LET g == sample(raw)
    IN
    [Polled(raw) EXCEPT
        !.overGate = hist.overGate
                     \/ (/\ is_valid_sample(g)
                         /\ is_valid_sample(hist.lastValid)
                         /\ g # hist.lastValid
                         /\ thr.def
                         /\ StepOverNoise(hist.lastValid, g))]

(***************************************************************************)
(* wait_for_saccade_start, heuristic mode.                                 *)
(***************************************************************************)
\* Variant: every step passes the gate.
NoiseGateOpen(sx, sy) == TRUE

\* Variant: the gate compared against the square of weightdist.
NoiseGateSquared(sx, sy) ==
    LET rx == thr.pxdsttresh[1]
        ry == thr.pxdsttresh[2]
    IN  sx * sx * ry * ry + sy * sy * rx * rx >
            weightdist * weightdist * rx * rx * ry * ry

\* (sx/self.pxdsttresh[0])**2 + (sy/self.pxdsttresh[1])**2 > self.weightdist
NoiseGate(sx, sy) ==
    LET rx == thr.pxdsttresh[1]
        ry == thr.pxdsttresh[2]
    IN  sx * sx * ry * ry + sy * sy * rx * rx > weightdist * rx * rx * ry * ry

\* v1 = s / (t1 - t0)
Velocity(s, dt) == Rat(s, dt)

\* a = (v1 - v0) / (t1 - t0)
Acceleration(v1, v0, dt) == RatDiv(RatSub(v1, v0), dt)

\* Variant: both thresholds must be exceeded.
SaccadeStartDetectedBoth(v1, a) ==
    RatGt(v1, thr.pxspdtresh) /\ RatGt(a, thr.pxacctresh)

\* v1 > self.pxspdtresh or a > self.pxacctresh
SaccadeStartDetected(v1, a) ==
    RatGt(v1, thr.pxspdtresh) \/ RatGt(a, thr.pxacctresh)

\* Variant: the previous position is left at the invalid sample.
StartPositionUnset(newpos) == Invalid

\* prevpos = newpos[:] after the first valid sample
StartPosition(newpos) == newpos

\* Variant: the previous position is not rolled forward.
RolledPositionStale(prevpos, newpos) == prevpos

\* prevpos = newpos[:] at the end of the handling of a changed valid sample
RolledPosition(prevpos, newpos) == newpos

\* return stime, spos
SaccadeStartResult(stime, spos) ==
    [shape |-> "(t,pos)", t |-> stime, spos |-> spos, epos |-> Invalid]

SS_Init ==
    /\ pc = "ss_init"
    /\ IF sample_raises
       THEN /\ Raise("NotRecording")
            /\ UNCHANGED <<prevsample, now, loc, hist, stream>>
       ELSE \E raw \in Deliverable :
              LET g == sample(raw)
              IN  /\ prevsample' = g
                  /\ stream' = Delivered(g)
                  /\ hist' = PolledSaccade(raw)
                  /\ IF ~is_valid_sample(g)
                     THEN /\ loc' = [loc EXCEPT !.newpos = g]
                          /\ now' = now
                          /\ Goto("ss_init")
                     ELSE \E t \in Readings(now) :
                            /\ now' = t
                            /\ loc' = [loc EXCEPT !.newpos = g,
                                                  !.prevpos = StartPosition(g),
                                                  !.t0 = t,
                                                  !.v0 = RatZero]
                            /\ Goto("ss_loop")

SS_Iter ==
    /\ pc = "ss_loop"
    /\ \E raw \in Deliverable, t \in Readings(now) :
         LET g == sample(raw)
             sx == g[1] - loc.prevpos[1]
             sy == g[2] - loc.prevpos[2]
             dt == t - loc.t0
             seen == [loc EXCEPT !.newpos = g, !.t1 = t]
         IN  /\ prevsample' = g
             /\ stream' = Delivered(g)
             /\ IF ~(is_valid_sample(g) /\ g # loc.prevpos)
                THEN /\ now' = t /\ loc' = seen /\ hist' = PolledSaccade(raw)
                     /\ Goto("ss_loop")
                ELSE IF ~thr.def
                THEN /\ now' = t /\ loc' = seen /\ hist' = PolledSaccade(raw)
                     /\ Raise("AttributeError")
                ELSE IF thr.pxdsttresh[1] = 0 \/ thr.pxdsttresh[2] = 0
                THEN /\ now' = t /\ loc' = seen /\ hist' = PolledSaccade(raw)
                     /\ Raise("ZeroDivisionError")
                ELSE IF ~NoiseGate(sx, sy)
                THEN /\ now' = t /\ hist' = PolledSaccade(raw)
                     /\ loc' = [seen EXCEPT
                                  !.prevpos = RolledPosition(loc.prevpos, g)]
                     /\ Goto("ss_loop")
                ELSE IF dt = 0
                THEN /\ now' = t /\ loc' = seen /\ hist' = PolledSaccade(raw)
                     /\ Raise("ZeroDivisionError")
                ELSE LET s == Distance(g, loc.prevpos)
                         v1 == Velocity(s, dt)
                         a == Acceleration(v1, loc.v0, dt)
                     IN  IF SaccadeStartDetected(v1, a)
                         THEN \E st \in Readings(t) :
                                /\ now' = st
                                /\ hist' = [PolledSaccade(raw) EXCEPT
                                              !.ssT = st, !.ssPos = loc.prevpos]
                                /\ IF op = "saccade_end"
                                   THEN /\ loc' = [NoLocals EXCEPT
                                                     !.newpos = g, !.t1 = t,
                                                     !.t0 = st,
                                                     !.spos = loc.prevpos,
                                                     !.stime = st]
                                        /\ Goto("se_init")
                                   ELSE /\ loc' = [seen EXCEPT
                                                     !.spos = loc.prevpos,
                                                     !.stime = st]
                                        /\ Return(SaccadeStartResult(st, loc.prevpos))
                         ELSE /\ now' = t /\ hist' = PolledSaccade(raw)
                              /\ loc' = [seen EXCEPT
                                           !.t0 = t, !.v0 = v1,
                                           !.prevpos = RolledPosition(loc.prevpos, g)]
                              /\ Goto("ss_loop")

(***************************************************************************)
(* wait_for_saccade_end, heuristic mode.                                   *)
(***************************************************************************)
\* Variant: the velocity alone decides.
SaccadeEndDetectedSlowOnly(v1, a) == RatLt(v1, thr.pxspdtresh)

\* v1 < self.pxspdtresh and (a > -1 * self.pxacctresh and a < 0)
SaccadeEndDetected(v1, a) ==
    /\ RatLt(v1, thr.pxspdtresh)
    /\ RatGt(a, RatNeg(thr.pxacctresh))
    /\ RatLt(a, RatZero)

\* Variant: the two positions in the other order.
SaccadeEndResultSwapped(etime, spos, epos) ==
    [shape |-> "(t,pos,pos)", t |-> etime, spos |-> epos, epos |-> spos]

\* return etime, spos, epos
SaccadeEndResult(etime, spos, epos) ==
    [shape |-> "(t,pos,pos)", t |-> etime, spos |-> spos, epos |-> epos]

SE_Init ==
    /\ pc = "se_init"
    /\ IF sample_raises
       THEN /\ Raise("NotRecording")
            /\ UNCHANGED <<prevsample, now, loc, hist, stream>>
       ELSE \E raw \in Deliverable :
              LET g == sample(raw)
              IN  /\ prevsample' = g
                  /\ stream' = Delivered(g)
                  /\ hist' = PolledSaccade(raw)
                  /\ IF ~is_valid_sample(g)
                     THEN /\ loc' = [loc EXCEPT !.prevpos = g]
                          /\ now' = now
                          /\ Goto("se_init")
                     ELSE \E t \in Readings(now) :
                            /\ now' = t
                            /\ IF t - loc.t0 = 0
                               THEN /\ loc' = [loc EXCEPT !.prevpos = g, !.t1 = t]
                                    /\ Raise("ZeroDivisionError")
                               ELSE /\ loc' = [loc EXCEPT
                                                 !.prevpos = g, !.t1 = t,
                                                 !.v0 = Velocity(Distance(g, loc.spos),
                                                                 t - loc.t0)]
                                    /\ Goto("se_loop")

SE_Iter ==
    /\ pc = "se_loop"
    /\ \E raw \in Deliverable, t \in Readings(now) :
         LET g == sample(raw)
             dt == t - loc.t0
             seen == [loc EXCEPT !.newpos = g, !.t1 = t]
         IN  /\ prevsample' = g
             /\ stream' = Delivered(g)
             /\ hist' = PolledSaccade(raw)
             /\ IF ~(is_valid_sample(g) /\ g # loc.prevpos)
                THEN /\ now' = t
                     /\ loc' = [seen EXCEPT !.prevpos = g]
                     /\ Goto("se_loop")
                ELSE IF dt = 0
                THEN /\ now' = t /\ loc' = seen
                     /\ Raise("ZeroDivisionError")
                ELSE LET s == Distance(g, loc.prevpos)
                         v1 == Velocity(s, dt)
                         a == Acceleration(v1, loc.v0, dt)
                     IN  IF ~thr.def
                         THEN /\ now' = t /\ loc' = seen
                              /\ Raise("AttributeError")
                         ELSE IF SaccadeEndDetected(v1, a)
                         THEN \E et \in Readings(t) :
                                /\ now' = et
                                /\ loc' = seen
                                /\ Return(SaccadeEndResult(et, loc.spos, g))
                         ELSE /\ now' = t
                              /\ loc' = [seen EXCEPT
                                           !.t0 = t, !.v0 = v1, !.prevpos = g]
                              /\ Goto("se_loop")

(***************************************************************************)
(* wait_for_fixation_start and wait_for_fixation_end, heuristic mode.      *)
(***************************************************************************)
\* Variant: the radius is not squared.
TooFarUnsquared(npos, spos) == SquaredDistance(npos, spos) > thr.pxfixtresh

\* (npos[0]-spos[0])**2 + (npos[1]-spos[1])**2 > self.pxfixtresh**2
TooFar(npos, spos) ==
    SquaredDistance(npos, spos) > thr.pxfixtresh * thr.pxfixtresh

\* Variant: the reading itself is compared with the threshold.
LingeredSinceZero(t1, t0) == t1 >= fixtimetresh

\* t1 - t0 >= self.fixtimetresh
Lingered(t1, t0) == t1 - t0 >= fixtimetresh

\* Variant: the anchor stays where it was.
MovedAnchorKept(spos, npos) == spos

\* spos = copy.copy(npos) when the sample is too far from the anchor
MovedAnchor(spos, npos) == npos

\* return t1, spos
FixationStartResult(t1, spos) ==
    [shape |-> "(t,pos)", t |-> t1, spos |-> spos, epos |-> Invalid]

\* return clock.get_time(), spos
FixationEndResult(t, spos) ==
    [shape |-> "(t,pos)", t |-> t, spos |-> spos, epos |-> Invalid]

FS_Init ==
    /\ pc = "fs_init"
    /\ IF sample_raises
       THEN /\ Raise("NotRecording")
            /\ UNCHANGED <<prevsample, now, loc, hist, stream>>
       ELSE \E raw \in Deliverable :
              LET g == sample(raw)
              IN  /\ prevsample' = g
                  /\ stream' = Delivered(g)
                  /\ IF ~is_valid_sample(g)
                     THEN /\ loc' = [loc EXCEPT !.spos = g]
                          /\ hist' = Polled(raw)
                          /\ now' = now
                          /\ Goto("fs_init")
                     ELSE \E t \in Readings(now) :
                            /\ now' = t
                            /\ loc' = [loc EXCEPT !.spos = g, !.t0 = t]
                            /\ hist' = [Polled(raw) EXCEPT !.anchorAt = t]
                            /\ Goto("fs_loop")

FS_Iter ==
    /\ pc = "fs_loop"
    /\ \E raw \in Deliverable :
         LET g == sample(raw)
             seen == [loc EXCEPT !.newpos = g]
         IN  /\ prevsample' = g
             /\ stream' = Delivered(g)
             /\ IF ~is_valid_sample(g)
                THEN /\ now' = now /\ loc' = seen /\ hist' = Polled(raw)
                     /\ Goto("fs_loop")
                ELSE IF ~thr.def
                THEN /\ now' = now /\ loc' = seen /\ hist' = Polled(raw)
                     /\ Raise("AttributeError")
                ELSE \E t \in Readings(now) :
                       /\ now' = t
                       /\ IF TooFar(g, loc.spos)
                          THEN /\ loc' = [seen EXCEPT
                                            !.spos = MovedAnchor(loc.spos, g),
                                            !.t0 = t]
                               /\ hist' = [Polled(raw) EXCEPT !.anchorAt = t]
                               /\ Goto("fs_loop")
                          ELSE IF ~Lingered(t, loc.t0)
                          THEN /\ loc' = [seen EXCEPT !.t1 = t]
                               /\ hist' = Polled(raw)
                               /\ Goto("fs_loop")
                          ELSE /\ hist' = [Polled(raw) EXCEPT
                                             !.ssT = t, !.ssPos = loc.spos]
                               /\ IF op = "fixation_end"
                                  THEN /\ loc' = [NoLocals EXCEPT
                                                    !.newpos = g, !.t1 = t,
                                                    !.spos = loc.spos,
                                                    !.stime = t]
                                       /\ Goto("fe_loop")
                                  ELSE /\ loc' = [seen EXCEPT !.t1 = t]
                                       /\ Return(FixationStartResult(t, loc.spos))

\* Variant: any sample away from the anchor ends the fixation.
DeviatedAtAll(npos, spos) == npos # spos

\* (npos[0]-spos[0])**2 + (npos[1]-spos[1])**2 > self.pxfixtresh**2, in
\* wait_for_fixation_end
Deviated(npos, spos) ==
    SquaredDistance(npos, spos) > thr.pxfixtresh * thr.pxfixtresh

FE_Iter ==
    /\ pc = "fe_loop"
    /\ IF sample_raises
       THEN /\ Raise("NotRecording")
            /\ UNCHANGED <<prevsample, now, loc, hist, stream>>
       ELSE \E raw \in Deliverable :
              LET g == sample(raw)
                  seen == [loc EXCEPT !.newpos = g]
              IN  /\ prevsample' = g
                  /\ stream' = Delivered(g)
                  /\ hist' = Polled(raw)
                  /\ IF ~is_valid_sample(g)
                     THEN /\ now' = now /\ loc' = seen /\ Goto("fe_loop")
                     ELSE IF ~thr.def
                     THEN /\ now' = now /\ loc' = seen /\ Raise("AttributeError")
                     ELSE IF ~Deviated(g, loc.spos)
                     THEN /\ now' = now /\ loc' = seen /\ Goto("fe_loop")
                     ELSE \E t \in Readings(now) :
                            /\ now' = t
                            /\ loc' = [seen EXCEPT !.t1 = t]
                            /\ Return(FixationEndResult(t, loc.spos))

(***************************************************************************)
(* wait_for_blink_start and wait_for_blink_end, heuristic mode.            *)
(***************************************************************************)
\* Variant: the reading itself is compared with the blink threshold.
BlinkLongEnoughSinceZero(t, t0) == t >= blink_threshold

\* Variant: any span will do.
BlinkLongEnoughAtOnce(t, t0) == t - t0 >= 0

\* clock.get_time() - t0 >= self.blink_threshold
BlinkLongEnough(t, t0) == t - t0 >= blink_threshold

\* return t0 / return clock.get_time(): a bare timestamp
BlinkResult(t) == [shape |-> "t", t |-> t, spos |-> Invalid, epos |-> Invalid]

BS_Loop ==
    /\ pc = "bs_loop"
    /\ IF sample_raises
       THEN /\ Raise("NotRecording")
            /\ UNCHANGED <<prevsample, now, loc, hist, stream>>
       ELSE \E raw \in Deliverable :
              LET g == sample(raw)
              IN  /\ prevsample' = g
                  /\ stream' = Delivered(g)
                  /\ hist' = Polled(raw)
                  /\ IF is_valid_sample(g)
                     THEN /\ now' = now
                          /\ loc' = [loc EXCEPT !.newpos = g]
                          /\ Goto("bs_loop")
                     ELSE \E t \in Readings(now) :
                            /\ now' = t
                            /\ loc' = [loc EXCEPT !.newpos = g, !.t0 = t]
                            /\ Goto("bs_cand")

BS_Cand ==
    /\ pc = "bs_cand"
    /\ \E raw \in Deliverable :
         LET g == sample(raw)
         IN  /\ prevsample' = g
             /\ stream' = Delivered(g)
             /\ hist' = Polled(raw)
             /\ IF is_valid_sample(g)
                THEN /\ now' = now
                     /\ loc' = [loc EXCEPT !.newpos = g]
                     /\ Goto("bs_loop")
                ELSE \E t \in Readings(now) :
                       /\ now' = t
                       /\ loc' = [loc EXCEPT !.newpos = g, !.t1 = t]
                       /\ IF BlinkLongEnough(t, loc.t0)
                          THEN Return(BlinkResult(loc.t0))
                          ELSE Goto("bs_cand")

BE_Iter ==
    /\ pc = "be_loop"
    /\ IF sample_raises
       THEN /\ Raise("NotRecording")
            /\ UNCHANGED <<prevsample, now, loc, hist, stream>>
       ELSE \E raw \in Deliverable :
              LET g == sample(raw)
              IN  /\ prevsample' = g
                  /\ stream' = Delivered(g)
                  /\ hist' = Polled(raw)
                  /\ IF ~is_valid_sample(g)
                     THEN /\ now' = now
                          /\ loc' = [loc EXCEPT !.newpos = g]
                          /\ Goto("be_loop")
                     ELSE \E t \in Readings(now) :
                            /\ now' = t
                            /\ loc' = [loc EXCEPT !.newpos = g, !.t1 = t]
                            /\ Return(BlinkResult(t))

(***************************************************************************)
(* wait_for_event, delegated mode: the tracker's own events.               *)
(***************************************************************************)
\* pylink's event codes: STARTBLINK, ENDBLINK, STARTSACC, ENDSACC, STARTFIX,
\* ENDFIX.
EventCode(o) ==
    CASE o = "blink_start" -> 3
      [] o = "blink_end" -> 4
      [] o = "saccade_start" -> 5
      [] o = "saccade_end" -> 6
      [] o = "fixation_start" -> 7
      [] o = "fixation_end" -> 8

\* What getNextData() can deliver: nothing (0) or an event's code.
NextData == {0} \cup {EventCode(o) : o \in WaitOps}

Times == {j * TickMs : j \in 0..MaxTicks}

\* The timeout wait_for_event runs with: its own argument, the argument of
\* wait_for_fixation_end, and None from the five other wait operations.
EventTimeout ==
    IF via \/ op = "fixation_end" THEN timeout ELSE NoTimeout

\* Variant: an event stamped at the time of the call is taken.
IsFreshOrEqual(tc, t0) == tc >= t0

\* if tc > t0
IsFresh(tc, t0) == tc > t0

\* timeout is not None and clock.get_time() - t0 > timeout
TimedOut(t, t0) == EventTimeout # NoTimeout /\ t - t0 > EventTimeout

\* What the caller of wait_for_event makes of (tc, float_data).
NativeResult(tc, sgaze, egaze) ==
    CASE via ->
            [shape |-> "(t,data)", t |-> tc, spos |-> sgaze, epos |-> egaze]
      [] ~via /\ op = "saccade_start" ->
            [shape |-> "(t,pos)", t |-> tc, spos |-> sgaze, epos |-> Invalid]
      [] ~via /\ op = "saccade_end" ->
            [shape |-> "(t,pos,pos)", t |-> tc, spos |-> sgaze, epos |-> egaze]
      [] ~via /\ op = "fixation_start" ->
            [shape |-> "(t,time,pos)", t |-> tc, spos |-> sgaze, epos |-> Invalid]
      [] ~via /\ op = "fixation_end" ->
            [shape |-> "(t,data)", t |-> tc, spos |-> sgaze, epos |-> egaze]
      [] ~via /\ op = "blink_start" ->
            [shape |-> "(t,time)", t |-> tc, spos |-> Invalid, epos |-> Invalid]
      [] ~via /\ op = "blink_end" ->
            [shape |-> "t", t |-> tc, spos |-> Invalid, epos |-> Invalid]

\* return None, None
TimeoutResult ==
    [shape |-> "(None,None)", t |-> 0, spos |-> Invalid, epos |-> Invalid]

\* One iteration of the loop; the clock is read only when a timeout was
\* given (the test of line 852 short-circuits on timeout is None), and only
\* when the iteration did not return the event.
EV_Iter ==
    /\ pc = "ev_loop"
    /\ UNCHANGED <<prevsample, stream>>
    /\ loc' = loc
    /\ \E d \in NextData, tc \in Times :
         IF d = EventCode(op) /\ IsFresh(tc, loc.t0)
         THEN \E sgaze \in Points, egaze \in Points :
                /\ now' = now
                /\ hist' = [hist EXCEPT !.event = d]
                /\ Return(NativeResult(tc, sgaze, egaze))
         ELSE \E t \in IF EventTimeout = NoTimeout THEN {now} ELSE Readings(now) :
                /\ now' = t
                /\ hist' = hist
                /\ IF TimedOut(t, loc.t0)
                   THEN Return(TimeoutResult)
                   ELSE Goto("ev_loop")

(***************************************************************************)
(* The call of a wait operation: wait_for_<op>() or, with via, the call    *)
(* wait_for_event(code of <op>, timeout).                                  *)
(***************************************************************************)
Entry(o) ==
    CASE o \in {"saccade_start", "saccade_end"} -> "ss_init"
      [] o \in {"fixation_start", "fixation_end"} -> "fs_init"
      [] o = "blink_start" -> "bs_loop"
      [] o = "blink_end" -> "be_loop"

\* wait_for_event: if not self.recording: raise
event_raises == ~recording

Call ==
    /\ AtRest
    /\ \E o \in WaitOps, v \in BOOLEAN, to \in {NoTimeout, TimeoutMs} :
         /\ (to # NoTimeout) => (v \/ o = "fixation_end")
         /\ op' = o
         /\ via' = v
         /\ timeout' = to
         /\ ret' = NoRet
         /\ hist' = NoHist
         /\ UNCHANGED <<recording, eventdetection, thr, prevsample, stream>>
         /\ IF v \/ eventdetection = "native"
            THEN IF event_raises
                 THEN /\ pc' = "raised" /\ err' = "NotRecording"
                      /\ loc' = NoLocals /\ now' = now
                 ELSE IF eventdetection = "native"
                 THEN \E t \in Readings(now) :
                        /\ now' = t
                        /\ loc' = [NoLocals EXCEPT !.t0 = t]
                        /\ pc' = "ev_loop" /\ err' = "-"
                 ELSE /\ pc' = Entry(o) /\ err' = "-"
                      /\ loc' = NoLocals /\ now' = now
            ELSE /\ pc' = Entry(o) /\ err' = "-"
                 /\ loc' = NoLocals /\ now' = now

(***************************************************************************)
(* The operations around the wait operations.                              *)
(***************************************************************************)
\* start_recording(): the flag is set first; when every attempt to start
\* fails the connection is closed (close() stops the recording) and the call
\* raises; when waitForBlockStart fails the call raises.
StartRecording ==
    /\ AtRest
    /\ Rest
    /\ \E outcome \in {"started", "no_start", "no_block"} :
         recording' = (outcome # "no_start")
    /\ UNCHANGED <<eventdetection, thr, prevsample, now, stream>>

\* stop_recording()
StopRecording ==
    /\ AtRest
    /\ Rest
    /\ recording' = FALSE
    /\ UNCHANGED <<eventdetection, thr, prevsample, now, stream>>

\* set_detection_type(eventdetection)
SetDetectionType ==
    /\ AtRest
    /\ Rest
    /\ \E e \in {"pygaze", "native", "other"} :
         eventdetection' = IF e \in {"pygaze", "native"} THEN e ELSE eventdetection
    /\ UNCHANGED <<recording, thr, prevsample, now, stream>>

\* calibrate(): refused while recording; in native mode the tracker's own
\* calibration only; in heuristic mode the noise calibration records for a
\* second, stops the recording and stores the four pixel thresholds.
Calibrate ==
    /\ AtRest
    /\ ~recording
    /\ Rest
    /\ IF eventdetection = "native"
       THEN UNCHANGED <<recording, thr>>
       ELSE /\ recording' = FALSE
            /\ thr' \in Calibrations
    /\ UNCHANGED <<eventdetection, prevsample, now, stream>>

\* The caller takes the result, or the exception, of the finished operation.
Finish ==
    /\ pc \in {"returned", "raised"}
    /\ Rest
    /\ UNCHANGED <<recording, eventdetection, thr, prevsample, now, stream>>

Next ==
    \/ Call \/ Finish
    \/ SS_Init \/ SS_Iter \/ SE_Init \/ SE_Iter
    \/ FS_Init \/ FS_Iter \/ FE_Iter
    \/ BS_Loop \/ BS_Cand \/ BE_Iter
    \/ EV_Iter
    \/ StartRecording \/ StopRecording \/ SetDetectionType \/ Calibrate

Spec == Init /\ [][Next]_vars

(***************************************************************************)
(* Properties of the wait operations.                                      *)
(***************************************************************************)
Heuristic == eventdetection = "pygaze"

\* The first statement of each heuristic wait operation that polls sample().
EntryLocations == {"ss_init", "fs_init", "bs_loop", "be_loop"}

\* The saccade-start detection of the current call has reported a saccade.
SaccadeStartReported ==
    /\ Heuristic
    /\ \/ op = "saccade_start" /\ pc = "returned"
       \/ op = "saccade_end" /\ pc \in {"se_init", "se_loop", "returned"}

\* C1: while the tracker is not recording, a call of any of the six wait
\* operations or of wait_for_event, in either detection mode, ends with the
\* not-recording error: the call is either already raised with that error or
\* stands before its first poll of sample(), which raises it; it never polls
\* a sample and never returns.
C1_NotRecordingRaises ==
    /\ [](( ~recording /\ op \in WaitOps) =>
            /\ pc \in EntryLocations \cup {"raised"}
            /\ pc = "raised" => err = "NotRecording"
            /\ hist.polled = 0)
    /\ [][(~recording /\ pc \in EntryLocations) =>
            (pc' = "raised" /\ err' = "NotRecording")]_vars

C1_Witness ==
    /\ ~recording
    /\ Heuristic /\ ~via /\ op = "saccade_end"
    /\ pc = "raised" /\ err = "NotRecording"

\* C2: when the detection has reported a saccade start, some step between two
\* consecutive distinct valid samples polled in the call exceeded the noise
\* gate; a stream whose steps all stay within the gate never makes
\* wait_for_saccade_start return.
C2_JitterNeverTriggers == SaccadeStartReported => hist.overGate

C2_Witness ==
    /\ Heuristic /\ op = "saccade_start" /\ pc = "ss_loop"
    /\ thr = Noisy
    /\ hist.steps = 2 /\ ~hist.overGate
    /\ loc.t1 > loc.t0

\* C3: when the detection has reported a saccade start, the samples polled in
\* the call were not all one and the same valid position; a flat stream never
\* makes wait_for_saccade_start return.
C3_FlatNeverTriggers == SaccadeStartReported => ~hist.flat

C3_Witness ==
    /\ Heuristic /\ op = "saccade_start" /\ pc = "ss_loop"
    /\ thr.def
    /\ hist.flat
    /\ loc.t1 > loc.t0

\* The step of the detection loop from the previous position to the sample
\* polled in this iteration passes the noise gate and exceeds the velocity
\* or the acceleration threshold.
StartCondition ==
    LET g == loc'.newpos
        dt == loc'.t1 - loc.t0
        dx == g[1] - loc.prevpos[1]
        dy == g[2] - loc.prevpos[2]
        rx == thr.pxdsttresh[1]
        ry == thr.pxdsttresh[2]
        s == Isqrt(dx * dx + dy * dy)
    IN  /\ g # Invalid
        /\ g # loc.prevpos
        /\ thr.def
        /\ rx # 0 /\ ry # 0
        /\ dx * dx * ry * ry + dy * dy * rx * rx > weightdist * rx * rx * ry * ry
        /\ dt > 0
        /\ \/ RatGt(Rat(s, dt), thr.pxspdtresh)
           \/ RatGt(RatDiv(RatSub(Rat(s, dt), loc.v0), dt), thr.pxacctresh)

\* What the detection reports out of the loop: (timestamp, position).
StartReport ==
    IF op = "saccade_end"
    THEN <<loc'.stime, loc'.spos>>
    ELSE <<ret'.t, ret'.spos>>

\* C4: an iteration of the saccade-start loop reports a saccade exactly when
\* the polled sample is valid, differs from the previous position, passes the
\* noise gate and has v1 = s/(t1-t0) above pxspdtresh or a = (v1-v0)/(t1-t0)
\* above pxacctresh; the reported position is the previous position, not the
\* triggering sample, and the reported timestamp is the clock reading taken
\* at the detection, not before t1.
C4_StartExactlyOnTrigger ==
    [][(Heuristic /\ pc = "ss_loop") =>
         /\ (pc' \in {"returned", "se_init"}) <=> StartCondition
         /\ (pc' \in {"returned", "se_init"}) =>
              /\ StartReport[2] = loc.prevpos
              /\ StartReport[2] # loc'.newpos
              /\ StartReport[1] = now'
              /\ StartReport[1] >= loc'.t1]_vars

C4_Witness ==
    /\ Heuristic /\ op = "saccade_start" /\ pc = "returned"
    /\ ret.spos # loc.newpos
    /\ hist.steps = 2
    /\ ret.t > loc.t1

\* The largest step of the lattice, from Pos(1) to Pos(MaxPos), polled by the
\* saccade-start loop under the calibration with rms noise (1,1).
JumpStep ==
    /\ Heuristic /\ pc = "ss_loop"
    /\ thr = Quiet
    /\ loc.prevpos = Pos(1)
    /\ loc'.newpos = Pos(MaxPos)

C6_EndOnlyOnDeceleration ==
    [][(Heuristic /\ pc = "se_loop" /\ pc' = "returned") =>
         LET g == loc'.newpos
             dt == loc'.t1 - loc.t0
             v1 == Rat(Distance(g, loc.prevpos), dt)
             a == RatDiv(RatSub(v1, loc.v0), dt)
         IN  /\ g # Invalid
             /\ g # loc.prevpos
             /\ dt > 0
             /\ RatLt(v1, thr.pxspdtresh)
             /\ RatGt(a, RatNeg(thr.pxacctresh))
             /\ RatLt(a, RatZero)]_vars

C6_Witness ==
    /\ Heuristic /\ op = "saccade_end" /\ pc = "returned"
    /\ ~via
    /\ ret.epos = loc.newpos

\* C7: a returned wait_for_saccade_end gives as start position the position
\* its saccade-start detection reported, as end position the sample that
\* satisfied the end condition, and an end timestamp not before the start
\* timestamp.
C7_EndResult ==
    (Heuristic /\ op = "saccade_end" /\ pc = "returned") =>
        /\ ret.shape = "(t,pos,pos)"
        /\ ret.spos = hist.ssPos
        /\ ret.epos = loc.newpos
        /\ ret.epos = hist.lastValid
        /\ ret.t >= hist.ssT

C7_Witness ==
    /\ Heuristic /\ op = "saccade_end" /\ pc = "returned"
    /\ ret.spos # ret.epos
    /\ ret.t > hist.ssT

\* C9: when wait_for_fixation_start returns, also as the first stage of
\* wait_for_fixation_end, the reported timestamp is at least fixtimetresh
\* after the clock reading taken when the anchor was last set, and the
\* reported position is that anchor.
C9_FixationDwell ==
    /\ (Heuristic /\ op = "fixation_start" /\ pc = "returned") =>
          /\ ret.t - hist.anchorAt >= fixtimetresh
          /\ ret.spos = loc.spos
    /\ (Heuristic /\ op = "fixation_end" /\ pc = "fe_loop") =>
          loc.stime - hist.anchorAt >= fixtimetresh

C9_Witness ==
    /\ Heuristic /\ op = "fixation_start" /\ pc = "returned"
    /\ hist.anchorAt > 0
    /\ ret.spos # hist.lastValid
    /\ ret.t - hist.anchorAt = fixtimetresh

(***************************************************************************)
(* The heuristic wait operations on a well-behaved stream: the tracker is  *)
(* calibrated and recording, the operation has been called, every poll     *)
(* delivers the stream's next sample, the clock strictly advances between  *)
(* two readings, and the polling loop keeps running.                       *)
(***************************************************************************)
InitCalled(o, l, regime) ==
    /\ recording = TRUE
    /\ eventdetection = "pygaze"
    /\ now = 0
    /\ pc = l
    /\ op = o
    /\ via = FALSE
    /\ timeout = NoTimeout
    /\ loc = NoLocals
    /\ ret = NoRet
    /\ err = "-"
    /\ hist = NoHist
    /\ stream = [mode |-> regime, k |-> 0]

\* Samples without gaze data, then valid samples that all lie within the
\* fixation radius of the first valid one.
InitFix ==
    /\ InitCalled("fixation_start", "fs_init", "fixate")
    /\ thr \in Calibrations
    /\ prevsample \in Gazes

NextFix == FS_Init \/ FS_Iter

\* The first poll of the operation that is answered with a valid sample.
FirstValidPoll == FS_Init /\ is_valid_sample(prevsample')

\* The loop runs on, and the tracker does not withhold a valid sample for
\* ever.
LiveFixSpec ==
    InitFix /\ [][NextFix]_vars /\ WF_vars(NextFix) /\ WF_vars(FirstValidPoll)

\* Valid samples that start at Pos(1), move by a step over the noise gate
\* at every poll up to Pos(MaxPos) and then hold that position, under the
\* calibration with rms noise (1,1).
InitRamp ==
    /\ \E o \in {"saccade_start", "saccade_end"} : InitCalled(o, "ss_init", "ramp")
    /\ thr = Quiet
    /\ prevsample \in Gazes

NextRamp == SS_Init \/ SS_Iter \/ SE_Init \/ SE_Iter

LiveRampSpec == InitRamp /\ [][NextRamp]_vars /\ WF_vars(NextRamp)

\* C8: on the ramp-then-hold stream with a strictly advancing clock the
\* saccade-start detection eventually reports and wait_for_saccade_end
\* eventually returns.
C8_RampThenHoldReturns ==
    /\ <>SaccadeStartReported
    /\ <>(Heuristic /\ op \in {"saccade_start", "saccade_end"} /\ pc = "returned")

\* On the ramp-then-hold stream every behaviour gets to poll the held
\* position in the saccade-end loop, unless the operation was
\* wait_for_saccade_start and has returned.
RampReachesHold ==
    <>(\/ pc = "se_loop" /\ stream.k = MaxPos /\ loc.prevpos = Pos(MaxPos)
       \/ op = "saccade_start" /\ pc = "returned")

\* On the ramp-then-hold stream no iteration of the saccade-end loop returns.
HoldNeverReturns == [][pc = "se_loop" => pc' = "se_loop"]_vars

\* C10: when, after possibly some invalid samples, every sample is valid and
\* within the fixation radius of the first valid sample and the clock
\* advances, wait_for_fixation_start eventually returns, and its anchor is
\* the first valid sample.
C10_FixationEventuallyStarts ==
    <>(/\ Heuristic /\ op = "fixation_start" /\ pc = "returned"
       /\ stream.k >= 1
       /\ ret.spos = Pos(stream.k))

C10_Witness ==
    /\ stream.mode = "fixate"
    /\ Heuristic /\ op = "fixation_start" /\ pc = "returned"
    /\ stream.k >= 1
    /\ ret.spos = Pos(stream.k)
    /\ loc.newpos # ret.spos
    /\ ret.t - hist.anchorAt >= fixtimetresh

\* C11: an iteration of the fixation-start loop that polls a valid sample
\* farther than the fixation radius from the anchor makes that sample the
\* anchor and restarts the dwell timer at the clock reading it takes; any
\* other iteration leaves the anchor alone; so at return the last valid
\* sample, and every one polled since the anchor was set, is within the
\* radius of the returned anchor.
C11_AnchorReset ==
    /\ [][(Heuristic /\ pc = "fs_loop" /\ thr.def /\ loc'.newpos # Invalid) =>
            IF SquaredDistance(loc'.newpos, loc.spos) >
                   thr.pxfixtresh * thr.pxfixtresh
            THEN /\ pc' = "fs_loop"
                 /\ loc'.spos = loc'.newpos
                 /\ loc'.t0 = now'
                 /\ hist'.anchorAt = now'
            ELSE /\ loc'.spos = loc.spos
                 /\ hist'.anchorAt = hist.anchorAt]_vars
    /\ []((Heuristic /\ op = "fixation_start" /\ pc = "returned") =>
            SquaredDistance(hist.lastValid, ret.spos) <=
                thr.pxfixtresh * thr.pxfixtresh)

C11_Witness ==
    /\ Heuristic /\ op = "fixation_start" /\ pc = "returned"
    /\ hist.steps = 1
    /\ ret.spos = hist.lastValid
    /\ hist.anchorAt >= 2 * TickMs

\* C12: a returned wait_for_fixation_end has had its fixation start
\* detected, its last polled sample is valid and farther than the fixation
\* radius from that fixation's anchor, the returned position is that anchor
\* and the returned timestamp is not before the fixation-start timestamp.
C12_FixationEndResult ==
    (Heuristic /\ op = "fixation_end" /\ pc = "returned"
        /\ ret.shape # "(None,None)") =>
        /\ hist.ssPos # Invalid
        /\ ret.spos = hist.ssPos
        /\ ret.t >= hist.ssT
        /\ hist.ssT - hist.anchorAt >= fixtimetresh
        /\ loc.newpos # Invalid
        /\ SquaredDistance(loc.newpos, ret.spos) >
               thr.pxfixtresh * thr.pxfixtresh

C12_Witness ==
    /\ Heuristic /\ op = "fixation_end" /\ pc = "returned"
    /\ ret.t > hist.ssT
    /\ ret.spos # loc.newpos
    /\ ret.spos = hist.ssPos

(***************************************************************************)
(* wait_for_fixation_end called with a timeout, directly or as             *)
(* wait_for_event(8, timeout), in heuristic mode on a stream that stays    *)
(* within the fixation radius of its first valid sample: no fixation end   *)
(* occurs.                                                                 *)
(***************************************************************************)
InitFixEnd ==
    /\ recording = TRUE
    /\ eventdetection = "pygaze"
    /\ thr \in Calibrations
    /\ prevsample \in Gazes
    /\ now = 0
    /\ pc = "fs_init"
    /\ op = "fixation_end"
    /\ via \in BOOLEAN
    /\ timeout = TimeoutMs
    /\ loc = NoLocals
    /\ ret = NoRet
    /\ err = "-"
    /\ hist = NoHist
    /\ stream = [mode |-> "fixate", k |-> 0]

NextFixEnd == FS_Init \/ FS_Iter \/ FE_Iter

LiveFixEndSpec ==
    /\ InitFixEnd /\ [][NextFixEnd]_vars
    /\ WF_vars(NextFixEnd) /\ WF_vars(FirstValidPoll)

\* C13: a wait_for_fixation_end with a timeout stops waiting when no
\* fixation end occurs: the call eventually ends, with the timeout result or
\* with an error.
C13_TimeoutBoundsWait == <>(pc \in {"returned", "raised"})

\* C14: in wait_for_blink_start a candidate starts only on an invalid sample,
\* with a timestamp t0 read from the clock right then; while the candidate
\* stands every polled sample is invalid and t0 is kept; a valid sample
\* discards the candidate and polling resumes, so that the next candidate
\* reads a new t0; the call returns only from a standing candidate, returns
\* its t0, and does so only when a clock reading is at least blink_threshold
\* after t0.
C14_BlinkStartDebounced ==
    [][Heuristic =>
         /\ (pc = "bs_loop" /\ pc' # "bs_loop") =>
               \/ pc' = "raised"
               \/ pc' = "bs_cand" /\ loc'.newpos = Invalid /\ loc'.t0 = now'
         /\ (pc = "bs_loop" /\ pc' = "bs_loop") => loc'.newpos # Invalid
         /\ (pc = "bs_cand" /\ loc'.newpos # Invalid) => pc' = "bs_loop"
         /\ (pc = "bs_cand" /\ pc' \in {"bs_cand", "returned"}) =>
               /\ loc'.newpos = Invalid
               /\ loc'.t0 = loc.t0
               /\ (pc' = "returned") <=> (now' - loc.t0 >= blink_threshold)
         /\ (op = "blink_start" /\ pc # "returned" /\ pc' = "returned") =>
               /\ pc = "bs_cand"
               /\ ret'.t = loc.t0
               /\ ret'.shape = "t"]_vars

C14_Witness ==
    /\ Heuristic /\ op = "blink_start" /\ pc = "returned"
    /\ hist.lastValid # Invalid
    /\ ret.t >= TickMs
    /\ now - ret.t >= blink_threshold

(***************************************************************************)
(* The caller that asks for the start of a blink and then for its end:     *)
(* start = wait_for_blink_start(); end = wait_for_blink_end(), in          *)
(* heuristic mode while recording.  The history keeps the start.           *)
(***************************************************************************)
ThenBlinkEnd ==
    /\ pc = "returned"
    /\ op = "blink_start"
    /\ op' = "blink_end"
    /\ pc' = Entry("blink_end")
    /\ hist' = [NoHist EXCEPT !.ssT = ret.t]
    /\ loc' = NoLocals
    /\ ret' = NoRet
    /\ UNCHANGED <<recording, eventdetection, thr, prevsample, now, via,
                   timeout, err, stream>>

InitBlink ==
    /\ InitCalled("blink_start", Entry("blink_start"), "free")
    /\ thr \in Calibrations \cup {Undefined}
    /\ prevsample \in Gazes

NextBlink == BS_Loop \/ BS_Cand \/ ThenBlinkEnd \/ BE_Iter

BlinkPairSpec == InitBlink /\ [][NextBlink]_vars

\* C15: when wait_for_blink_end returns after wait_for_blink_start, the
\* start timestamp is not after the end timestamp and the two are at least
\* blink_threshold apart.
C15_BlinkSpan ==
    (Heuristic /\ op = "blink_end" /\ pc = "returned") =>
        /\ hist.ssT <= ret.t
        /\ ret.t - hist.ssT >= blink_threshold

C15_Witness ==
    /\ Heuristic /\ op = "blink_end" /\ pc = "returned"
    /\ hist.ssT >= TickMs
    /\ ~hist.flat
    /\ loc.newpos # Invalid
    /\ ret.t - hist.ssT = blink_threshold

\* C16: an iteration of the blink-end loop returns exactly when the sample
\* it polls is valid, and polls on otherwise; a returned wait_for_blink_end
\* has polled a valid sample, its last one, and returns the clock reading
\* taken at it.
C16_BlinkEndAtFirstValid ==
    /\ [][(Heuristic /\ recording /\ pc = "be_loop") =>
            /\ (pc' = "returned") <=> (loc'.newpos # Invalid)
            /\ (pc' # "returned") => pc' = "be_loop"
            /\ loc'.newpos = prevsample']_vars
    /\ []((Heuristic /\ op = "blink_end" /\ pc = "returned") =>
            /\ hist.lastValid # Invalid
            /\ loc.newpos = hist.lastValid
            /\ hist.steps = 0
            /\ ret.t = now)

C16_Witness ==
    /\ Heuristic /\ op = "blink_end" /\ pc = "returned"
    /\ ~via
    /\ ~hist.flat
    /\ loc.newpos # Invalid

\* C17: no step changes the detection mode of the instance.
C17_ModeFixed == [][eventdetection' = eventdetection]_vars

\* C18: in delegated mode a wait_for_event that has passed the recording
\* check never raises; it returns an event of the requested kind whose
\* clock-converted timestamp is later than the clock reading of the call,
\* or (None, None) when it ran with a timeout and a clock reading more than
\* timeout ms after the call was taken; and an iteration that does not take
\* an event returns (None, None) as soon as it takes such a reading.
C18_NativeEvent ==
    /\ [][(eventdetection = "native" /\ pc = "ev_loop") =>
            /\ pc' \in {"ev_loop", "returned"}
            /\ (pc' = "returned" /\ ret'.shape # "(None,None)") =>
                  /\ hist'.event = EventCode(op)
                  /\ ret'.t > loc.t0
            /\ (pc' = "returned" /\ ret'.shape = "(None,None)") =>
                  /\ EventTimeout # NoTimeout
                  /\ now' - loc.t0 > EventTimeout
            /\ (pc' = "ev_loop") =>
                  ~(EventTimeout # NoTimeout /\ now' - loc.t0 > EventTimeout)]_vars
    /\ []((eventdetection = "native" /\ pc = "raised") =>
            (~recording /\ err = "NotRecording"))

C18_Witness ==
    /\ eventdetection = "native" /\ via /\ pc = "returned"
    /\ op = "saccade_end"
    /\ ret.shape = "(None,None)"
    /\ timeout = TimeoutMs
    /\ now - loc.t0 > TimeoutMs

\* C19: a wait operation returns a value of the same shape in both detection
\* modes: (timestamp, start_pos) for saccade start, fixation start and
\* fixation end, (timestamp, start_pos, end_pos) for saccade end, and a
\* timestamp for blink start and blink end.
C19_OneResultContract ==
    (pc = "returned" /\ ~via /\ ret.shape # "(None,None)") =>
        ret.shape =
            CASE op \in {"saccade_start", "fixation_start", "fixation_end"} ->
                    "(t,pos)"
              [] op = "saccade_end" -> "(t,pos,pos)"
              [] op \in {"blink_start", "blink_end"} -> "t"

\* Every step of a wait call leaves the recording flag, the detection mode
\* and the thresholds as they are.
WaitFrame ==
    [][op' \in WaitOps =>
         /\ recording' = recording
         /\ eventdetection' = eventdetection
         /\ thr' = thr]_vars

\* A wait call starts with fresh locals, no result and an empty history.
FreshLocals ==
    [][(pc = "idle" /\ pc' # "idle" /\ op' \in WaitOps) =>
         /\ loc' \in {NoLocals, [NoLocals EXCEPT !.t0 = now']}
         /\ ret' = NoRet
         /\ hist' = NoHist]_vars

PollLocations ==
    {"ss_init", "ss_loop", "se_init", "se_loop", "fs_init", "fs_loop",
     "fe_loop", "bs_loop", "bs_cand", "be_loop"}

\* A step in which sample() answered.
PollStep == pc \in PollLocations /\ ~sample_raises

\* C21 as stated: whenever the tracker had no new sample for a poll and a
\* valid sample has been polled earlier in the call, sample() answered with
\* that last valid sample.
C21_RepeatsLastValid ==
    (hist.polled = 1 /\ ~hist.raw.new /\ is_valid_sample(hist.lastValid))
        => prevsample = hist.lastValid

\* C21: sample() never makes up a position.  Answering a new tracker sample
\* it returns (and stores) that sample's gaze, the sentinel (-1,-1) when the
\* sample has no data for the eye in use; answering without a new sample it
\* returns the gaze it stored last, whether that was a valid position or the
\* sentinel, and leaves it stored.
C21_SampleRepeatsStored ==
    /\ [](hist.polled = 1 /\ hist.raw.new => prevsample = hist.raw.gaze)
    /\ [][(PollStep /\ ~hist'.raw.new) => prevsample' = prevsample]_vars

C21_Witness ==
    /\ hist.polled = 1 /\ ~hist.raw.new
    /\ is_valid_sample(hist.lastValid)
    /\ prevsample = Invalid
    /\ Heuristic /\ op = "blink_start"

(***************************************************************************)
(* Properties of the saccade loops.                                        *)
(***************************************************************************)
\* C24: in the loop of wait_for_saccade_start, a changed valid sample whose
\* step from the previous position stays within the noise gate leaves t0 and
\* v0 as they were (only the previous position moves on), and a step of the
\* loop that changes t0 or v0 polled a changed valid sample over the gate and
\* sets t0 to the reading taken with that sample.
C24_BaselineKeptBelowGate ==
    [][(pc = "ss_loop" /\ thr.def) =>
         LET g == prevsample'
             changed == is_valid_sample(g) /\ g # loc.prevpos
         IN  /\ (changed /\ ~StepOverNoise(loc.prevpos, g)) =>
                    /\ pc' = "ss_loop"
                    /\ loc'.t0 = loc.t0
                    /\ loc'.v0 = loc.v0
                    /\ loc'.prevpos = g
             /\ (pc' = "ss_loop" /\ (loc'.t0 # loc.t0 \/ loc'.v0 # loc.v0)) =>
                    /\ changed
                    /\ StepOverNoise(loc.prevpos, g)
                    /\ loc'.t0 = loc'.t1]_vars

C24_Witness ==
    /\ Heuristic /\ op = "saccade_start" /\ pc = "ss_loop"
    /\ thr = Noisy
    /\ hist.steps = 1 /\ ~hist.overGate
    /\ loc.newpos = loc.prevpos /\ loc.newpos = hist.lastValid
    /\ loc.t1 > loc.t0
    /\ loc.v0 = RatZero

\* C25 as stated: no saccade operation fails on a division by a zero time
\* difference t1 - t0.
C25_PositiveTimeDifference ==
    ~(/\ op \in {"saccade_start", "saccade_end"}
      /\ pc = "raised" /\ err = "ZeroDivisionError"
      /\ loc.t1 = loc.t0)

\* C27 as stated: no heuristic wait operation fails on reading a pixel
\* threshold that no noise calibration has set.
C27_ThresholdsSetWhenRead ==
    (Heuristic /\ op \in WaitOps /\ pc = "raised") => err # "AttributeError"

\* C28 as stated: in the loop of wait_for_saccade_end the previous position
\* is a valid sample.
C28_PreviousPositionValid ==
    (Heuristic /\ op = "saccade_end" /\ pc = "se_loop") =>
        is_valid_sample(loc.prevpos)

(***************************************************************************)
(* The operations around recording, step by step: start_recording, close,  *)
(* calibrate, drift_correction, manual_drift_correction and                *)
(* fix_triggered_drift_correction, with the calls they make of each other. *)
(* op is the operation the caller called; an exception raised in a nested  *)
(* call ends the caller's operation.                                       *)
(***************************************************************************)
\* libeyelink.MAX_TRY
MAX_TRY == 100
\* the default of fix_triggered_drift_correction's min_samples
min_samples == 30
\* the most gazes the noise calibration polls in its second of recording
MaxRecorded == 3

RecordingOps ==
    {"start_recording", "close", "calibrate", "drift_correction",
     "manual_drift_correction", "fix_triggered_drift_correction"}

\* A result that is not a wait tuple: None, True, False or "skipped".
Answer(x) == [NoRet EXCEPT !.shape = x]

\* if i > self.MAX_TRY
Exhausted(i) == i > MAX_TRY

\* start_recording(): self.recording = True; i = 0
SR_Call ==
    /\ AtRest
    /\ op' = "start_recording"
    /\ recording' = TRUE
    /\ pc' = "sr_loop"
    /\ loc' = [loc EXCEPT !.i = 0]
    /\ hist' = [hist EXCEPT !.attempts = 0]
    /\ UNCHANGED <<eventdetection, thr, prevsample, now, via, timeout, ret,
                   err, stream>>

\* One iteration of the loop of start_recording: the tracker's startRecording
\* is called; on an error the call gives up, closing the connection (close()
\* stops the recording), when i exceeds MAX_TRY, and counts and reports the
\* attempt otherwise.
SR_Attempt ==
    /\ pc = "sr_loop"
    /\ \E error \in {0, 1} :
         /\ hist' = [hist EXCEPT !.attempts = @ + 1]
         /\ IF error = 0
            THEN /\ pc' = "sr_block"
                 /\ UNCHANGED <<recording, loc, err>>
            ELSE IF Exhausted(loc.i)
            THEN /\ recording' = FALSE
                 /\ pc' = "raised"
                 /\ err' = "StartFailed"
                 /\ loc' = loc
            ELSE /\ loc' = [loc EXCEPT !.i = @ + 1]
                 /\ pc' = "sr_loop"
                 /\ UNCHANGED <<recording, err>>
    /\ UNCHANGED <<eventdetection, thr, prevsample, now, op, via, timeout, ret,
                   stream>>

\* if not waitForBlockStart(100, 1, 0): raise; the caller of a successful
\* start_recording is the program or the noise calibration of calibrate(),
\* which goes on without the locals of the start_recording it called.
SR_Block ==
    /\ pc = "sr_block"
    /\ \E started \in BOOLEAN :
         IF ~started
         THEN /\ pc' = "raised" /\ err' = "BlockStartFailed"
              /\ UNCHANGED <<ret, loc, hist>>
         ELSE IF op = "start_recording"
         THEN /\ pc' = "returned" /\ ret' = Answer("None")
              /\ UNCHANGED <<err, loc, hist>>
         ELSE /\ pc' = "cal_record"
              /\ loc' = [loc EXCEPT !.i = 0]
              /\ hist' = [hist EXCEPT !.attempts = 0]
              /\ UNCHANGED <<ret, err>>
    /\ UNCHANGED <<recording, eventdetection, thr, prevsample, now, op, via,
                   timeout, stream>>

\* close(): if self.recording: self.stop_recording()
Close ==
    /\ AtRest
    /\ op' = "close"
    /\ recording' = FALSE
    /\ pc' = "returned"
    /\ ret' = Answer("None")
    /\ UNCHANGED <<eventdetection, thr, prevsample, now, via, timeout, loc,
                   err, hist, stream>>

\* The gazes sample() can return while the noise calibration records: two
\* lattice points, a point beside them that shares its x with Pos(1) and its
\* y with Pos(2), the sentinel and the origin.
Beside == <<Pos(1)[1], Pos(2)[2]>>
Origin == <<0, 0>>
CalGazes == {Pos(1), Pos(2), Beside, Invalid, Origin}

\* What the noise calibration can poll: up to MaxRecorded gazes.
Recordings ==
    UNION {[1..len -> CalGazes] : len \in 1..MaxRecorded}

\* sl = [self.sample()], then every polled s with
\* s != sl[-1] and s != (-1, -1) and s != (0, 0) is appended.
RECURSIVE Kept(_, _)
Kept(sl, rest) ==
    IF rest = <<>>
    THEN sl
    ELSE LET s == Head(rest)
         IN  Kept(IF s # sl[Len(sl)] /\ s # Invalid /\ s # Origin
                  THEN Append(sl, s) ELSE sl,
                  Tail(rest))

SampleList(polled) == Kept(<<Head(polled)>>, Tail(polled))

\* for i in range(2, len(sl)): Xvar.append((sl[i][0] - sl[i-1][0]) ** 2),
\* and Yvar likewise for axis 2
SquaredSteps(sl, axis) ==
    [j \in 1..(Len(sl) - 2) |->
        (sl[j + 2][axis] - sl[j + 1][axis]) * (sl[j + 2][axis] - sl[j + 1][axis])]

RECURSIVE Sum(_)
Sum(var) == IF var = <<>> THEN 0 ELSE Head(var) + Sum(Tail(var))

\* The square root of the rational q >= 0, rounded up to a whole number
\* where it is not one; it is 0 exactly when q is 0.
RootUp(q) == CHOOSE r \in 0..q.n : r * r * q.d >= q.n /\
                 \A r2 \in 0..q.n : r2 * r2 * q.d >= q.n => r <= r2

\* (sum(var) / len(var)) ** 0.5
RMS(var) == RootUp(Rat(Sum(var), Len(var)))

\* if Xvar and Yvar: both lists are non-empty
ProperlyRecorded(Xvar, Yvar) == Xvar # <<>> /\ Yvar # <<>>

\* The thresholds stored by a noise calibration: the RMS noise per axis, and
\* the three thresholds converted from degrees.
NoiseThresholds(Xvar, Yvar) ==
    [Quiet EXCEPT !.pxdsttresh = <<RMS(Xvar), RMS(Yvar)>>]

\* Variant: calibrate() without the recording check.
calibrate_unchecked == FALSE

\* calibrate: if self.recording: raise
calibrate_raises == recording

\* calibrate() returns: to the program, or to the drift correction that
\* called it and that then returns False.
CalibrateReturns ==
    /\ pc' = "returned"
    /\ ret' = Answer(IF op = "calibrate" THEN "None" ELSE "False")

Cal_Call ==
    /\ AtRest
    /\ op' = "calibrate"
    /\ pc' = "cal_top"
    /\ UNCHANGED <<recording, eventdetection, thr, prevsample, now, via,
                   timeout, loc, ret, err, hist, stream>>

\* The head of calibrate()'s outer loop (the check of the recording flag) and
\* one round of the tracker's own calibration: doTrackerSetup; after escape
\* the abort question, which closes the connection and raises on 'y' and
\* repeats the set-up otherwise; then, in native mode, the return and, in
\* heuristic mode, the start of the recording for the noise calibration.
Cal_Setup ==
    /\ pc \in {"cal_top", "cal_setup"}
    /\ IF pc = "cal_top" /\ calibrate_raises
       THEN /\ pc' = "raised"
            /\ err' = "Recording"
            /\ UNCHANGED <<recording, loc, ret, hist>>
       ELSE \E esc \in BOOLEAN, abort \in BOOLEAN :
              IF esc
              THEN /\ hist' = [hist EXCEPT !.entered = "setup"]
                   /\ IF abort
                      THEN /\ recording' = FALSE
                           /\ pc' = "raised"
                           /\ err' = "Aborted"
                           /\ UNCHANGED <<loc, ret>>
                      ELSE /\ pc' = "cal_setup"
                           /\ UNCHANGED <<recording, loc, ret, err>>
              ELSE IF eventdetection = "native"
              THEN /\ hist' = [hist EXCEPT !.entered = "setup"]
                   /\ CalibrateReturns
                   /\ UNCHANGED <<recording, loc, err>>
              ELSE /\ hist' = [hist EXCEPT !.entered = "setup", !.attempts = 0]
                   /\ recording' = TRUE
                   /\ loc' = [loc EXCEPT !.i = 0]
                   /\ pc' = "sr_loop"
                   /\ UNCHANGED <<ret, err>>
    /\ UNCHANGED <<eventdetection, thr, prevsample, now, op, via, timeout,
                   stream>>

\* The noise calibration after its recording has started: the samples are
\* polled, the recording is stopped, and the thresholds are stored if the
\* recording was proper; otherwise 'r' records again and space goes back to
\* the head of calibrate().
Cal_Record ==
    /\ pc = "cal_record"
    /\ \E polled \in Recordings :
         LET sl == SampleList(polled)
             Xvar == SquaredSteps(sl, 1)
             Yvar == SquaredSteps(sl, 2)
         IN  /\ prevsample' = polled[Len(polled)]
             /\ IF ProperlyRecorded(Xvar, Yvar)
                THEN /\ recording' = FALSE
                     /\ thr' = NoiseThresholds(Xvar, Yvar)
                     /\ CalibrateReturns
                     /\ UNCHANGED <<loc, hist>>
                ELSE \E key \in {"space", "r"} :
                       IF key = "space"
                       THEN /\ recording' = FALSE
                            /\ pc' = "cal_top"
                            /\ UNCHANGED <<thr, loc, ret, hist>>
                       ELSE /\ recording' = TRUE
                            /\ loc' = [loc EXCEPT !.i = 0]
                            /\ hist' = [hist EXCEPT !.attempts = 0]
                            /\ pc' = "sr_loop"
                            /\ UNCHANGED <<thr, ret>>
    /\ UNCHANGED <<eventdetection, now, op, via, timeout, err, stream>>

\* drift_correction: if self.recording: raise
drift_correction_raises == recording

\* drift_correction(pos, fix_triggered, overwrite)
DC_Call ==
    /\ AtRest
    /\ op' = "drift_correction"
    /\ \E fix_triggered \in BOOLEAN, overwrite \in BOOLEAN,
          connected \in BOOLEAN :
         IF drift_correction_raises
         THEN /\ pc' = "raised" /\ err' = "Recording" /\ loc' = loc
         ELSE IF ~connected
         THEN /\ pc' = "raised" /\ err' = "NotConnected" /\ loc' = loc
         ELSE /\ pc' = IF fix_triggered THEN "ft_init" ELSE "mdc"
              /\ loc' = [loc EXCEPT !.overwrite = overwrite]
              /\ err' = err
    /\ UNCHANGED <<recording, eventdetection, thr, prevsample, now, via,
                   timeout, ret, hist, stream>>

\* manual_drift_correction(pos, overwrite)
MDC_Call ==
    /\ AtRest
    /\ op' = "manual_drift_correction"
    /\ pc' = "mdc"
    /\ \E overwrite \in BOOLEAN : loc' = [loc EXCEPT !.overwrite = overwrite]
    /\ UNCHANGED <<recording, eventdetection, thr, prevsample, now, via,
                   timeout, ret, err, hist, stream>>

\* return True / return "skipped" of manual_drift_correction
DriftCorrected == Answer("True")
DriftSkipped == Answer("skipped")

\* The body of manual_drift_correction: doDriftCorrect (an exception counts
\* as error -1); True on 0; otherwise the abort question if escape was
\* pressed, then "skipped" with overwrite and calibrate() without.
MDC_Correct ==
    /\ pc = "mdc"
    /\ \E error \in {0, -1}, esc \in BOOLEAN, abort \in BOOLEAN :
         /\ hist' = [hist EXCEPT !.entered = "drift",
                                 !.dc = IF error = 0 THEN "ok" ELSE "failed"]
         /\ IF error = 0
            THEN /\ pc' = "returned" /\ ret' = DriftCorrected
                 /\ UNCHANGED <<recording, err>>
            ELSE IF esc /\ abort
            THEN /\ recording' = FALSE
                 /\ pc' = "raised" /\ err' = "Aborted" /\ ret' = ret
            ELSE IF loc.overwrite
            THEN /\ pc' = "returned" /\ ret' = DriftSkipped
                 /\ UNCHANGED <<recording, err>>
            ELSE /\ pc' = "cal_top"
                 /\ UNCHANGED <<recording, ret, err>>
    /\ UNCHANGED <<eventdetection, thr, prevsample, now, op, via, timeout, loc,
                   stream>>

\* fix_triggered_drift_correction(pos)
FT_Call ==
    /\ AtRest
    /\ op' = "fix_triggered_drift_correction"
    /\ pc' = "ft_init"
    /\ UNCHANGED <<recording, eventdetection, thr, prevsample, now, via,
                   timeout, loc, ret, err, hist, stream>>

\* fix_triggered_drift_correction: if self.recording: raise
fix_triggered_raises == recording

\* The head of fix_triggered_drift_correction: the check, then
\* self.recording = True and prepare_drift_correction.
FT_Init ==
    /\ pc = "ft_init"
    /\ IF fix_triggered_raises
       THEN /\ pc' = "raised" /\ err' = "Recording"
            /\ UNCHANGED <<recording, loc, hist>>
       ELSE /\ recording' = TRUE
            /\ hist' = [hist EXCEPT !.entered = "drift"]
            /\ loc' = [loc EXCEPT !.n = 0]
            /\ pc' = "ft_loop"
            /\ err' = err
    /\ UNCHANGED <<eventdetection, thr, prevsample, now, op, via, timeout, ret,
                   stream>>

\* One iteration of the loop of fix_triggered_drift_correction, and what
\* follows the loop once min_samples samples are collected.  The tracker in
\* set-up mode or the key q: the flag is cleared and calibrate() is called
\* (the collection is not read again, n is dropped);
\* escape: the flag is cleared and the abort question is asked; otherwise a
\* sample is polled: an invalid one is skipped, the first valid one is
\* collected, a later one is collected, ignored as a repetition, or throws
\* the collection away when it is too far from the last; the full collection
\* is either accepted (drift correction applied, flag cleared, True) or
\* thrown away when getCalibrationResult raises.
FT_Iter ==
    /\ pc = "ft_loop"
    /\ \E happens \in {"setup", "q", "escape", "sample"} :
         CASE happens \in {"setup", "q"} ->
                /\ recording' = FALSE
                /\ pc' = "cal_top"
                /\ loc' = [loc EXCEPT !.n = 0]
                /\ UNCHANGED <<prevsample, ret, err>>
           [] happens = "escape" ->
                /\ recording' = FALSE
                /\ \E abort \in BOOLEAN :
                     IF abort
                     THEN /\ pc' = "raised" /\ err' = "Aborted" /\ ret' = ret
                     ELSE /\ pc' = "returned" /\ ret' = Answer("False")
                          /\ err' = err
                /\ UNCHANGED <<prevsample, loc>>
           [] happens = "sample" ->
                \E g \in Gazes, kind \in {"same", "near", "far"},
                   accepted \in BOOLEAN :
                  LET n1 == IF ~is_valid_sample(g) THEN loc.n
                            ELSE IF loc.n = 0 THEN 1
                            ELSE IF kind = "same" THEN loc.n
                            ELSE IF kind = "far" THEN 0
                            ELSE loc.n + 1
                      full == is_valid_sample(g) /\ n1 = min_samples
                  IN  /\ prevsample' = g
                      /\ IF full /\ accepted
                         THEN /\ recording' = FALSE
                              /\ loc' = [loc EXCEPT !.n = n1]
                              /\ pc' = "returned" /\ ret' = DriftCorrected
                              /\ err' = err
                         ELSE /\ loc' = [loc EXCEPT
                                           !.n = IF full THEN 0 ELSE n1]
                              /\ pc' = "ft_loop"
                              /\ UNCHANGED <<recording, ret, err>>
    /\ UNCHANGED <<eventdetection, thr, now, op, via, timeout, hist, stream>>

RecordingNext ==
    \/ SR_Call \/ SR_Attempt \/ SR_Block
    \/ StopRecording \/ Close
    \/ Cal_Call \/ Cal_Setup \/ Cal_Record
    \/ DC_Call \/ MDC_Call \/ MDC_Correct
    \/ FT_Call \/ FT_Init \/ FT_Iter
    \/ Finish

RecordingSpec == Init /\ [][RecordingNext]_vars

(***************************************************************************)
(* Properties of the operations around recording.                          *)
(***************************************************************************)
\* C22 as stated: a manual drift correction, called directly or through
\* drift_correction, that returns after doDriftCorrect has answered returns
\* True if the answer was 0 and False otherwise.
C22_DriftCorrectionAnswer ==
    (/\ op \in {"manual_drift_correction", "drift_correction"}
     /\ pc = "returned"
     /\ hist.dc # "-")
        => ret.shape = IF hist.dc = "ok" THEN "True" ELSE "False"

\* C23: calibrate(), at every pass of the head of its outer loop (when called
\* by the program, by a drift correction, or after a failed noise
\* calibration), fix_triggered_drift_correction() and drift_correction()
\* raise when the recording flag is True, leaving the flag and the tracker's
\* mode as they were: the step neither runs the tracker's set-up nor puts it
\* into drift-correction mode.
C23_NoSetupWhileRecording ==
    [][/\ (pc \in {"cal_top", "ft_init"} /\ recording) =>
            /\ pc' = "raised" /\ err' = "Recording"
            /\ recording'
            /\ hist'.entered = hist.entered
       /\ (pc = "idle" /\ op' = "drift_correction" /\ recording) =>
            /\ pc' = "raised" /\ err' = "Recording"
            /\ recording'
            /\ hist'.entered = "-"]_vars

C23_Witness ==
    /\ op = "manual_drift_correction"
    /\ pc = "raised" /\ err = "Recording"
    /\ recording
    /\ hist.dc = "failed" /\ hist.entered = "drift"

\* C26 as stated: the noise floor stored by a completed noise calibration is
\* non-zero on both axes.
C26_NoiseFloorNonZero ==
    thr.def => (thr.pxdsttresh[1] # 0 /\ thr.pxdsttresh[2] # 0)

\* C29 as stated: a start_recording() calls the tracker's startRecording at
\* most MAX_TRY times, and the attempt counter it reports stays within
\* MAX_TRY.
C29_AtMostMaxTry == hist.attempts <= MAX_TRY /\ loc.i <= MAX_TRY

\* C30 as stated: the recording flag is False after a start_recording() that
\* raised, after close(), and after calibrate() or
\* fix_triggered_drift_correction() returned.
C30_FlagFalseAfter ==
    /\ (op = "start_recording" /\ pc = "raised") => ~recording
    /\ (op = "close" /\ pc = "returned") => ~recording
    /\ (op \in {"calibrate", "fix_triggered_drift_correction"}
        /\ pc = "returned") => ~recording

=============================================================================
